---- MODULE Spec2Model ----
(***************************************************************************)
(* A model of heston.py: the Heston dataclass, its pricing routine         *)
(* (call_price over _call_price_scalar) and its three path simulators      *)
(* (simulate_euler, simulate_qe, simulate_exact).                          *)
(*                                                                         *)
(* Floating-point numbers are modelled as fixed-point numbers with SCALE   *)
(* units per 1.0, together with the IEEE special values the NumPy array    *)
(* arithmetic of the code produces (inf, -inf, nan).  Every arithmetic     *)
(* result is rounded to the grid (floor), which stands for the rounding of *)
(* a float operation.  exp, log and sqrt are computed by monotone rational *)
(* approximations rounded to the same grid.                                *)
(***************************************************************************)
EXTENDS Integers, Sequences, FiniteSets, TLC

\* Units per 1.0 of the fixed-point grid.
SCALE == 16

\* Largest number of time steps a simulate call is given.
MaxSteps == 2

----------------------------------------------------------------------------
(* Floats: <<0, n>> is the finite value n/SCALE, <<1, 1>> is +inf,          *)
(* <<1, -1>> is -inf, <<2, 0>> is nan, <<3, 0>> is a cell of np.empty that  *)
(* has not been written.                                                    *)

Fin(n) == <<0, n>>
PosInf == <<1, 1>>
NegInf == <<1, -1>>
NaN == <<2, 0>>
Uninit == <<3, 0>>

IsFin(x) == x[1] = 0
IsInf(x) == x[1] = 1
IsNaN(x) == x[1] = 2
IsUninit(x) == x[1] = 3
Num(x) == x[2]

SignOf(x) == IF x[2] > 0 THEN 1 ELSE IF x[2] < 0 THEN -1 ELSE 0
InfOfSign(sg) == IF sg > 0 THEN PosInf ELSE NegInf

Zero == Fin(0)
One == Fin(SCALE)
Two == Fin(2 * SCALE)
Four == Fin(4 * SCALE)
Ten == Fin(10 * SCALE)
Half == Fin(SCALE \div 2)

Neg(x) == IF IsNaN(x) THEN NaN ELSE <<x[1], -x[2]>>

Add(a, b) ==
    IF IsNaN(a) \/ IsNaN(b) THEN NaN
    ELSE IF IsInf(a) /\ IsInf(b) THEN (IF a = b THEN a ELSE NaN)
    ELSE IF IsInf(a) THEN a
    ELSE IF IsInf(b) THEN b
    ELSE Fin(Num(a) + Num(b))

Sub(a, b) == Add(a, Neg(b))

Mul(a, b) ==
    IF IsNaN(a) \/ IsNaN(b) THEN NaN
    ELSE IF IsInf(a) \/ IsInf(b)
         THEN (IF SignOf(a) * SignOf(b) = 0 THEN NaN
               ELSE InfOfSign(SignOf(a) * SignOf(b)))
    ELSE Fin((Num(a) * Num(b)) \div SCALE)

\* Division of NumPy arrays: x/0 is +-inf or nan with a warning, never an exception.
Div(a, b) ==
    IF IsNaN(a) \/ IsNaN(b) THEN NaN
    ELSE IF IsInf(a) /\ IsInf(b) THEN NaN
    ELSE IF IsInf(a) THEN InfOfSign(SignOf(a) * (IF SignOf(b) < 0 THEN -1 ELSE 1))
    ELSE IF IsInf(b) THEN Zero
    ELSE IF Num(b) = 0
         THEN (IF Num(a) = 0 THEN NaN ELSE InfOfSign(SignOf(a)))
    ELSE Fin((Num(a) * SCALE) \div Num(b))

\* Comparisons: every comparison with nan is False.
Lt(a, b) ==
    IF IsNaN(a) \/ IsNaN(b) THEN FALSE
    ELSE IF IsInf(a) /\ IsInf(b) THEN Num(a) < Num(b)
    ELSE IF IsInf(a) THEN Num(a) < 0
    ELSE IF IsInf(b) THEN Num(b) > 0
    ELSE Num(a) < Num(b)

Gt(a, b) == Lt(b, a)
Le(a, b) == ~IsNaN(a) /\ ~IsNaN(b) /\ ~Lt(b, a)
Ge(a, b) == Le(b, a)

\* np.maximum: propagates nan.
Maximum(a, b) ==
    IF IsNaN(a) \/ IsNaN(b) THEN NaN
    ELSE IF Lt(a, b) THEN b ELSE a

\* np.where on one element.
Where(c, x, y) == IF c THEN x ELSE y

RECURSIVE ISqrtFrom(_, _)
ISqrtFrom(n, r) == IF (r + 1) * (r + 1) > n THEN r ELSE ISqrtFrom(n, r + 1)

ISqrt(n) == ISqrtFrom(n, 0)

\* np.sqrt: nan for a negative argument.
Sqrt(a) ==
    IF IsNaN(a) THEN NaN
    ELSE IF IsInf(a) THEN (IF Num(a) > 0 THEN PosInf ELSE NaN)
    ELSE IF Num(a) < 0 THEN NaN
    ELSE Fin(ISqrt(Num(a) * SCALE))

\* exp(x) for x >= 0 by its Taylor polynomial of degree 2.
ExpPos(n) == SCALE + n + ((n * n) \div (2 * SCALE))

\* math.exp / np.exp: exp(0) = 1, positive, increasing; a very negative
\* argument underflows to 0.
Exp(a) ==
    IF IsNaN(a) THEN NaN
    ELSE IF IsInf(a) THEN (IF Num(a) > 0 THEN PosInf ELSE Zero)
    ELSE IF Num(a) >= 0 THEN Fin(ExpPos(Num(a)))
    ELSE Fin((SCALE * SCALE) \div ExpPos(-Num(a)))

\* math.log / np.log on a positive finite argument: 2(x-1)/(x+1), the first
\* term of the series of log; log(1) = 0, increasing.  np.log(0) = -inf and
\* np.log of a negative number is nan.
Log(a) ==
    IF IsNaN(a) THEN NaN
    ELSE IF IsInf(a) THEN (IF Num(a) > 0 THEN PosInf ELSE NaN)
    ELSE IF Num(a) < 0 THEN NaN
    ELSE IF Num(a) = 0 THEN NegInf
    ELSE Fin((2 * SCALE * (Num(a) - SCALE)) \div (Num(a) + SCALE))

----------------------------------------------------------------------------
(* State.                                                                   *)

VARIABLES
    op,        \* the operation under way
    pc,        \* the position in it
    self,      \* the Heston instance: its seven fields
    t,         \* simulate_*: the time interval; call_price: the t argument
    k,         \* call_price: the k argument
    steps,     \* simulate_*: the number of steps
    paths,     \* simulate_*: the number of paths
    dt,        \* simulate_*: t/steps
    cst,       \* simulate_qe: K0..K3, C1..C3; simulate_exact: df, nc, coef
    Z,         \* the normal draws used so far, one row per step
    U,         \* the uniform draws used so far, one row per step
    V,         \* the variance grid
    X,         \* simulate_euler: the log-price grid
    S,         \* the price grid
    i,         \* the index of the step loop
    j,         \* simulate_exact: the index of the path loop
    int_v,     \* simulate_exact: the integrated variance of the current step
    quad,      \* scipy.integrate.quad on the pricing integrand, per (t, k)
    outcome,   \* "none", "returned" or "raised"
    exc,       \* the exception raised
    result     \* the value returned

vars == <<op, pc, self, t, k, steps, paths, dt, cst, Z, U, V, X, S, i, j,
          int_v, quad, outcome, exc, result>>

None == <<>>

\* The @dataclass Heston: the generated __init__ stores its arguments.
Heston(s_, v_, kappa_, theta_, sigma_, rho_, r_) ==
    [s |-> s_, v |-> v_, kappa |-> kappa_, theta |-> theta_,
     sigma |-> sigma_, rho |-> rho_, r |-> r_]

\* The ranges the class docstring and the data model give the parameters.
ValidModel(h) ==
    /\ Gt(h.s, Zero)
    /\ Ge(h.v, Zero)
    /\ Gt(h.kappa, Zero)
    /\ Gt(h.theta, Zero)
    /\ Gt(h.sigma, Zero)
    /\ Gt(h.rho, Neg(One))
    /\ Lt(h.rho, One)

----------------------------------------------------------------------------
(* Inputs.                                                                  *)

\* Instances the pricing and simulation methods are called on.
Models ==
    { Heston(Fin(s_ * SCALE), Fin(v_ * SCALE), One, Two, Fin(g_ * SCALE),
             Neg(Half), Zero) :
        s_ \in {1, 2}, v_ \in {0, 2}, g_ \in {2, 3} }

TimeVals == {Zero, One}
StepVals == 0..MaxSteps
PathVals == {1, 2}

\* Values of the standard normal, uniform and noncentral chi-squared draws.
NormalVals == {Neg(One), One}
PriceNormalVals == {One}
UniformVals == {Zero, Half}
ChiSquaredVals == {Zero, One}

Cols == 0..(paths - 1)

\* np.empty(shape=(steps+1, paths)): no cell is written yet.
Empty(n, m) == [a \in 0..(n - 1) |-> [b \in 0..(m - 1) |-> Uninit]]

\* grid[a] = row
SetRow(grid, a, row) == [grid EXCEPT ![a] = row]

\* V[0] = self.v: the scalar is broadcast over the row.
Fill(m, x) == [b \in 0..(m - 1) |-> x]

Raise(e) ==
    /\ outcome' = "raised"
    /\ exc' = e
    /\ pc' = "done"

Idle ==
    /\ t = None /\ k = None /\ steps = 0 /\ paths = 0 /\ dt = None
    /\ cst = None /\ Z = <<>> /\ U = <<>> /\ V = None /\ X = None /\ S = None
    /\ i = 0 /\ j = 0 /\ int_v = None /\ quad = None
    /\ outcome = "none" /\ exc = "" /\ result = None

----------------------------------------------------------------------------
(* simulate_euler                                                           *)

EulerVplus(Vi) == Maximum(Vi, Zero)

\* One path of the assignment to V[i+1].
EulerVNext(h, d, Vi, z0) ==
    Add(Add(Vi, Mul(Mul(h.kappa, Sub(h.theta, EulerVplus(Vi))), d)),
        Mul(Mul(Mul(h.sigma, Sqrt(EulerVplus(Vi))), z0), Sqrt(d)))

\* One path of the assignment to X[i+1].
EulerXNext(h, d, Xi, Vi, z0, z1) ==
    Add(Add(Xi, Mul(Sub(h.r, Mul(Half, EulerVplus(Vi))), d)),
        Mul(Mul(Sqrt(EulerVplus(Vi)),
                Add(Mul(h.rho, z0),
                    Mul(Sqrt(Sub(One, Mul(h.rho, h.rho))), z1))),
            Sqrt(d)))

\* A variant that stores the truncated variance back into row a.
EulerStepVStoreBack(h, d, grid, a, zrow) ==
    [grid EXCEPT
        ![a] = [b \in DOMAIN grid[a] |-> EulerVplus(grid[a][b])],
        ![a + 1] = [b \in DOMAIN grid[a] |->
                       EulerVNext(h, d, grid[a][b], zrow[b][1])]]

\* The rows the step i assigns, from the grids and the draws of the step.
EulerStepV(h, d, grid, a, zrow) ==
    SetRow(grid, a + 1,
           [b \in DOMAIN grid[a] |-> EulerVNext(h, d, grid[a][b], zrow[b][1])])

EulerStepX(h, d, xgrid, vgrid, a, zrow) ==
    SetRow(xgrid, a + 1,
           [b \in DOMAIN xgrid[a] |->
               EulerXNext(h, d, xgrid[a][b], vgrid[a][b], zrow[b][1], zrow[b][2])])

\* dt = t/steps ... X[0] = math.log(self.s)
EulerSetup ==
    /\ op = "simulate_euler" /\ pc = "start"
    /\ IF steps = 0
       THEN /\ Raise("ZeroDivisionError")
            /\ UNCHANGED <<dt, V, X, i>>
       ELSE IF ~Gt(self.s, Zero)
       THEN /\ Raise("ValueError")
            /\ dt' = Div(t, Fin(steps * SCALE))
            /\ V' = SetRow(Empty(steps + 1, paths), 0, Fill(paths, self.v))
            /\ UNCHANGED <<X, i>>
       ELSE /\ dt' = Div(t, Fin(steps * SCALE))
            /\ V' = SetRow(Empty(steps + 1, paths), 0, Fill(paths, self.v))
            /\ X' = SetRow(Empty(steps + 1, paths), 0, Fill(paths, Log(self.s)))
            /\ i' = 0
            /\ pc' = "loop"
            /\ UNCHANGED <<outcome, exc>>
    /\ UNCHANGED <<op, self, t, k, steps, paths, cst, Z, U, S, j, int_v, quad, result>>

\* One iteration of the step loop; the draws Z[0, i], Z[1, i] of the step are
\* taken when the step uses them.
EulerStep ==
    /\ op = "simulate_euler" /\ pc = "loop" /\ i < steps
    /\ \E zrow \in [Cols -> NormalVals \X PriceNormalVals] :
        /\ Z' = Append(Z, zrow)
        /\ V' = EulerStepV(self, dt, V, i, zrow)
        /\ X' = EulerStepX(self, dt, X, V, i, zrow)
    /\ i' = i + 1
    /\ UNCHANGED <<op, pc, self, t, k, steps, paths, dt, cst, U, S, j, int_v,
                   quad, outcome, exc, result>>

\* S = np.exp(X) and the return.
EulerReturn ==
    /\ op = "simulate_euler" /\ pc = "loop" /\ i = steps
    /\ S' = [a \in DOMAIN X |-> [b \in DOMAIN X[a] |-> Exp(X[a][b])]]
    /\ \E return_v \in BOOLEAN :
        result' = IF return_v THEN <<S', V>> ELSE <<S'>>
    /\ outcome' = "returned"
    /\ pc' = "done"
    /\ UNCHANGED <<op, self, t, k, steps, paths, dt, cst, Z, U, V, X, i, j,
                   int_v, quad, exc>>

----------------------------------------------------------------------------
(* simulate_qe                                                              *)

\* The threshold of the branch of the variance update.
PsiCrit == Fin((3 * SCALE) \div 2)

\* K0..K3 and C1..C3, computed once from the parameters and dt.
QEConstants(h, d) ==
    LET ratio == Sub(Div(Mul(h.kappa, h.rho), h.sigma), Half)
        c1 == Exp(Mul(Neg(h.kappa), d))
        sigma2 == Mul(h.sigma, h.sigma)
        om == Sub(One, c1)
    IN  [K0 |-> Div(Mul(Mul(Mul(Neg(h.rho), h.kappa), h.theta), d), h.sigma),
         K1 |-> Sub(Mul(Mul(Half, ratio), d), Div(h.rho, h.sigma)),
         K2 |-> Add(Mul(Mul(Half, ratio), d), Div(h.rho, h.sigma)),
         K3 |-> Mul(Mul(Half, Sub(One, Mul(h.rho, h.rho))), d),
         C1 |-> c1,
         C2 |-> Div(Mul(Mul(sigma2, c1), om), h.kappa),
         C3 |-> Div(Mul(Mul(Mul(Half, h.theta), sigma2), Mul(om, om)), h.kappa)]

QEm(h, c, Vi) == Add(Mul(Vi, c.C1), Mul(h.theta, Sub(One, c.C1)))

QEs_sq(c, Vi) == Add(Mul(Vi, c.C2), c.C3)

QEpsi(h, c, Vi) == Div(QEs_sq(c, Vi), Mul(QEm(h, c, Vi), QEm(h, c, Vi)))

QEb_sq(psi) ==
    Where(Lt(psi, Two),
          Add(Sub(Div(Two, psi), One),
              Sqrt(Maximum(Sub(Div(Four, Mul(psi, psi)), Div(Two, psi)), Zero))),
          Zero)

QEa(m, b_sq) == Div(m, Add(One, b_sq))

QEp(psi) == Where(Gt(psi, One), Div(Sub(psi, One), Add(psi, One)), Zero)

QEbeta(m, p) == Div(Sub(One, p), m)

\* a*(np.sqrt(b_sq)+Z[0, i])**2
QEQuadratic(a, b_sq, z0) ==
    Mul(a, Mul(Add(Sqrt(b_sq), z0), Add(Sqrt(b_sq), z0)))

\* np.where(U[i] < p, 0, np.log((1-p)/(1-U[i]))/beta)
QEExponential(p, beta, u) ==
    Where(Lt(u, p), Zero, Div(Log(Div(Sub(One, p), Sub(One, u))), beta))

\* A variant of the branch that takes the quadratic formula at the threshold.
QEUseQuadraticInclusive(psi) == Le(psi, PsiCrit)

\* The branch of the variance update: TRUE for the quadratic formula.
QEUseQuadratic(psi) == Lt(psi, PsiCrit)

\* One path of the assignment to V[i+1].
QEVNext(h, c, Vi, z0, u) ==
    LET m == QEm(h, c, Vi)
        psi == QEpsi(h, c, Vi)
        b_sq == QEb_sq(psi)
        p == QEp(psi)
    IN  Where(QEUseQuadratic(psi),
              QEQuadratic(QEa(m, b_sq), b_sq, z0),
              QEExponential(p, QEbeta(m, p), u))

\* One path of the assignment to S[i+1].
QESNext(h, c, d, Si, Vi, Vn, z1) ==
    Mul(Si,
        Exp(Add(Add(Add(Add(Mul(h.r, d), c.K0), Mul(c.K1, Vi)), Mul(c.K2, Vn)),
                Mul(Sqrt(Mul(c.K3, Add(Vi, Vn))), z1))))

\* A variant that writes the new variances into row a instead of row a + 1.
QEStepVSameRow(h, c, grid, a, zrow, urow) ==
    SetRow(grid, a,
           [b \in DOMAIN grid[a] |->
               QEVNext(h, c, grid[a][b], zrow[b][1], urow[b])])

\* The row of V the step a assigns.
QEStepV(h, c, grid, a, zrow, urow) ==
    SetRow(grid, a + 1,
           [b \in DOMAIN grid[a] |->
               QEVNext(h, c, grid[a][b], zrow[b][1], urow[b])])

\* The row of S the step a assigns.
QEStepS(h, c, d, sgrid, vgrid, a, zrow) ==
    SetRow(sgrid, a + 1,
           [b \in DOMAIN sgrid[a] |->
               QESNext(h, c, d, sgrid[a][b], vgrid[a][b], vgrid[a + 1][b],
                       zrow[b][2])])

\* dt = t/steps ... S[0] = self.s
QESetup ==
    /\ op = "simulate_qe" /\ pc = "start"
    /\ IF steps = 0 \/ self.sigma = Zero \/ self.kappa = Zero
       THEN /\ Raise("ZeroDivisionError")
            /\ UNCHANGED <<dt, cst, V, S, i>>
       ELSE /\ dt' = Div(t, Fin(steps * SCALE))
            /\ cst' = QEConstants(self, dt')
            /\ V' = SetRow(Empty(steps + 1, paths), 0, Fill(paths, self.v))
            /\ S' = SetRow(Empty(steps + 1, paths), 0, Fill(paths, self.s))
            /\ i' = 0
            /\ pc' = "loop"
            /\ UNCHANGED <<outcome, exc>>
    /\ UNCHANGED <<op, self, t, k, steps, paths, Z, U, X, j, int_v, quad, result>>

\* One iteration of the step loop.
QEStep ==
    /\ op = "simulate_qe" /\ pc = "loop" /\ i < steps
    /\ \E zrow \in [Cols -> NormalVals \X PriceNormalVals], urow \in [Cols -> UniformVals] :
        /\ Z' = Append(Z, zrow)
        /\ U' = Append(U, urow)
        /\ V' = QEStepV(self, cst, V, i, zrow, urow)
        /\ S' = QEStepS(self, cst, dt, S, V', i, zrow)
    /\ i' = i + 1
    /\ UNCHANGED <<op, pc, self, t, k, steps, paths, dt, cst, X, j, int_v,
                   quad, outcome, exc, result>>

QEReturn ==
    /\ op = "simulate_qe" /\ pc = "loop" /\ i = steps
    /\ \E return_v \in BOOLEAN :
        result' = IF return_v THEN <<S, V>> ELSE <<S>>
    /\ outcome' = "returned"
    /\ pc' = "done"
    /\ UNCHANGED <<op, self, t, k, steps, paths, dt, cst, Z, U, V, X, S, i, j,
                   int_v, quad, exc>>

----------------------------------------------------------------------------
(* simulate_exact                                                           *)

\* U = st.uniform.rvs(...)*0.9999
Shrink == Fin((9999 * SCALE) \div 10000)

\* 1 - math.exp(-self.kappa*dt)
ExactOneMinusExp(h, d) == Sub(One, Exp(Mul(Neg(h.kappa), d)))

\* df, nc and the scale of the noncentral chi-squared draw.
ExactConstants(h, d) ==
    LET sigma2 == Mul(h.sigma, h.sigma)
    IN  [df |-> Div(Mul(Mul(Four, h.theta), h.kappa), sigma2),
         nc |-> Div(Mul(Mul(Four, h.kappa), Exp(Mul(Neg(h.kappa), d))),
                    Mul(sigma2, ExactOneMinusExp(h, d))),
         coef |-> Div(Mul(sigma2, ExactOneMinusExp(h, d)), Mul(Four, h.kappa))]

\* _bk_prob(x, ...): 0 for x <= 0.  For x > 0 the loop condition of the
\* series evaluates cmath.abs, which the cmath module does not have, with
\* j = 1 < 1000: the call ends in AttributeError before any term is summed.
BkProb(x) ==
    IF Le(x, Zero)
    THEN [raised |-> FALSE, value |-> Zero]
    ELSE [raised |-> TRUE, value |-> NaN]

\* max_int_v = (V[i, j] + V[i+1, j])*dt*10
MaxIntV(d, Vi, Vn) == Mul(Mul(Add(Vi, Vn), d), Ten)

\* opt.brentq(f, a=0, b=max_int_v): a root in the bracket, ValueError when
\* f(a) and f(b) have the same strict sign.
BrentqBracketed(fa, fb) == ~(Lt(fa, Zero) /\ Lt(fb, Zero)) /\ ~(Gt(fa, Zero) /\ Gt(fb, Zero))

\* dt = t/steps ... V[0] = self.v
ExactSetup ==
    /\ op = "simulate_exact" /\ pc = "start"
    /\ IF steps = 0
       THEN /\ Raise("ZeroDivisionError")
            /\ UNCHANGED <<dt, cst, V, S, i, int_v>>
       ELSE IF \/ Mul(self.sigma, self.sigma) = Zero
               \/ Mul(Mul(self.sigma, self.sigma),
                      ExactOneMinusExp(self, Div(t, Fin(steps * SCALE)))) = Zero
       THEN /\ Raise("ZeroDivisionError")
            /\ dt' = Div(t, Fin(steps * SCALE))
            /\ UNCHANGED <<cst, V, S, i, int_v>>
       ELSE /\ dt' = Div(t, Fin(steps * SCALE))
            /\ cst' = ExactConstants(self, dt')
            /\ S' = SetRow(Empty(steps + 1, paths), 0, Fill(paths, self.s))
            /\ V' = SetRow(Empty(steps + 1, paths), 0, Fill(paths, self.v))
            /\ int_v' = Fill(paths, Uninit)
            /\ i' = 0
            /\ pc' = "loop"
            /\ UNCHANGED <<outcome, exc>>
    /\ UNCHANGED <<op, self, t, k, steps, paths, Z, U, X, j, quad, result>>

\* The head of one iteration of the step loop: V[i+1] from the noncentral
\* chi-squared draws of the step.
ExactSampleV ==
    /\ op = "simulate_exact" /\ pc = "loop" /\ i < steps
    /\ \E chi \in [Cols -> ChiSquaredVals] :
        V' = SetRow(V, i + 1, [b \in Cols |-> Mul(cst.coef, chi[b])])
    /\ \E zrow \in [Cols -> PriceNormalVals], urow \in [Cols -> UniformVals] :
        /\ Z' = Append(Z, zrow)
        /\ U' = Append(U, [b \in Cols |-> Mul(urow[b], Shrink)])
    /\ j' = 0
    /\ pc' = "invert"
    /\ UNCHANGED <<op, self, t, k, steps, paths, dt, cst, X, S, i, int_v, quad,
                   outcome, exc, result>>

\* One iteration of the path loop: int_v[j] = F^{-1}(U[i, j]) on [0, max_int_v].
ExactInvert ==
    /\ op = "simulate_exact" /\ pc = "invert" /\ j < paths
    /\ LET max_int_v == MaxIntV(dt, V[i][j], V[i + 1][j])
           F == BkProb(max_int_v)
       IN  IF F.raised
           THEN /\ Raise("AttributeError")
                /\ UNCHANGED <<int_v, j>>
           ELSE IF Le(F.value, U[i + 1][j])
           THEN /\ int_v' = [int_v EXCEPT ![j] = max_int_v]
                /\ j' = j + 1
                /\ UNCHANGED <<pc, outcome, exc>>
           ELSE IF BrentqBracketed(Sub(BkProb(Zero).value, U[i + 1][j]),
                                   Sub(F.value, U[i + 1][j]))
           THEN /\ \E x \in {Zero, max_int_v} :
                     int_v' = [int_v EXCEPT ![j] = x]
                /\ j' = j + 1
                /\ UNCHANGED <<pc, outcome, exc>>
           ELSE /\ Raise("ValueError")
                /\ UNCHANGED <<int_v, j>>
    /\ UNCHANGED <<op, self, t, k, steps, paths, dt, cst, Z, U, V, X, S, i, quad,
                   result>>

\* int_w1
ExactIntW1(h, d, Vi, Vn, iv) ==
    Div(Add(Sub(Sub(Vn, Vi), Mul(Mul(h.kappa, h.theta), d)), Mul(h.kappa, iv)),
        h.sigma)

\* The tail of one iteration of the step loop: the two stochastic integrals
\* and S[i+1].  math.sqrt and math.exp take a scalar: an array of more than
\* one element is a TypeError.
ExactPrice ==
    /\ op = "simulate_exact" /\ pc = "invert" /\ j = paths
    /\ IF paths > 1
       THEN /\ Raise("TypeError")
            /\ UNCHANGED <<S, i>>
       ELSE /\ S' = SetRow(S, i + 1,
                  [b \in Cols |->
                     Mul(S[i][b],
                         Exp(Add(Add(Sub(Mul(self.r, dt), Mul(Half, int_v[b])),
                                     Mul(self.rho,
                                         ExactIntW1(self, dt, V[i][b], V[i + 1][b],
                                                    int_v[b]))),
                                 Mul(Sqrt(Sub(One, Mul(self.rho, self.rho))),
                                     Mul(Z[i + 1][b], Sqrt(int_v[b]))))))])
            /\ i' = i + 1
            /\ pc' = "loop"
            /\ UNCHANGED <<outcome, exc>>
    /\ UNCHANGED <<op, self, t, k, steps, paths, dt, cst, Z, U, V, X, j, int_v,
                   quad, result>>

ExactReturn ==
    /\ op = "simulate_exact" /\ pc = "loop" /\ i = steps
    /\ \E return_v \in BOOLEAN :
        result' = IF return_v THEN <<S, V>> ELSE <<S>>
    /\ outcome' = "returned"
    /\ pc' = "done"
    /\ UNCHANGED <<op, self, t, k, steps, paths, dt, cst, Z, U, V, X, S, i, j,
                   int_v, quad, exc>>

----------------------------------------------------------------------------
(* Construction: the dataclass __init__ and calibrate                       *)

\* Values the arguments of the constructor are drawn from.
PriceVals == {Neg(One), Zero, One}
VarianceVals == {Neg(One), Zero, One}
RateVals == {Zero, One}
CorrelationVals == {Neg(Two), Neg(One), Zero, One}

\* The bounds calibrate gives the optimizer: closed intervals.
InBounds(v_, kappa_, theta_, sigma_, rho_) ==
    /\ Ge(v_, Zero) /\ Ge(kappa_, Zero) /\ Ge(theta_, Zero) /\ Ge(sigma_, Zero)
    /\ Ge(rho_, Neg(One)) /\ Le(rho_, One)

\* Heston(s, v, kappa, theta, sigma, rho, r): the fields are stored as given.
Construct ==
    /\ op = "construct" /\ pc = "start"
    /\ \E s_ \in PriceVals, v_ \in VarianceVals, kappa_ \in RateVals,
          theta_ \in RateVals, sigma_ \in RateVals, rho_ \in CorrelationVals :
        self' = Heston(s_, v_, kappa_, theta_, sigma_, rho_, Zero)
    /\ result' = self'
    /\ outcome' = "returned"
    /\ pc' = "done"
    /\ UNCHANGED <<op, t, k, steps, paths, dt, cst, Z, U, V, X, S, i, j, int_v,
                   quad, exc>>

\* calibrate: res.x is a point the optimizer returns within the bounds, and
\* the instance is built from it and the s argument.
Calibrate ==
    /\ op = "calibrate" /\ pc = "start"
    /\ \E s_ \in PriceVals, v_ \in VarianceVals, kappa_ \in RateVals,
          theta_ \in RateVals, sigma_ \in RateVals, rho_ \in CorrelationVals :
        /\ InBounds(v_, kappa_, theta_, sigma_, rho_)
        /\ self' = Heston(s_, v_, kappa_, theta_, sigma_, rho_, Zero)
    /\ \E return_minimize_result \in BOOLEAN :
        result' = IF return_minimize_result THEN <<self', "res">> ELSE self'
    /\ outcome' = "returned"
    /\ pc' = "done"
    /\ UNCHANGED <<op, t, k, steps, paths, dt, cst, Z, U, V, X, S, i, j, int_v,
                   quad, exc>>

----------------------------------------------------------------------------
(* call_price                                                               *)

\* A scalar or an array argument: its shape and its elements in C order.
Scalar(x) == [shape |-> <<>>, data |-> <<x>>]
Array(sh, d) == [shape |-> sh, data |-> d]

RECURSIVE Size(_)
Size(sh) == IF sh = <<>> THEN 1 ELSE Head(sh) * Size(Tail(sh))

Max2(a, b) == IF a < b THEN b ELSE a

\* A shape with ones put in front, to n dimensions.
Pad(sh, n) == [d \in 1..n |-> IF d <= n - Len(sh) THEN 1 ELSE sh[d - (n - Len(sh))]]

\* np.broadcast: the shapes are aligned at their last dimension; two
\* dimensions go together when they are equal or one of them is 1.
Broadcastable(sa, sb) ==
    LET n == Max2(Len(sa), Len(sb))
    IN  \A d \in 1..n :
            \/ Pad(sa, n)[d] = Pad(sb, n)[d]
            \/ Pad(sa, n)[d] = 1
            \/ Pad(sb, n)[d] = 1

BroadcastShape(sa, sb) ==
    LET n == Max2(Len(sa), Len(sb))
    IN  [d \in 1..n |-> Max2(Pad(sa, n)[d], Pad(sb, n)[d])]

\* The multi-index of the n-th element of an array of shape sh in C order.
RECURSIVE Unravel(_, _)
Unravel(n, sh) ==
    IF sh = <<>> THEN <<>>
    ELSE <<n \div Size(Tail(sh))>> \o Unravel(n % Size(Tail(sh)), Tail(sh))

\* The position in C order of the element at a multi-index.
RECURSIVE Ravel(_, _)
Ravel(idx, sh) ==
    IF sh = <<>> THEN 0
    ELSE Head(idx) * Size(Tail(sh)) + Ravel(Tail(idx), Tail(sh))

\* The element of arr that the broadcast puts at multi-index idx of the
\* broadcast shape: a dimension of size 1 is stretched.
BroadcastElement(arr, idx) ==
    LET n == Len(idx)
        m == Len(arr.shape)
        own == [d \in 1..m |-> IF arr.shape[d] = 1 THEN 0 ELSE idx[d + (n - m)]]
    IN  arr.data[Ravel(own, arr.shape) + 1]

\* 1/math.pi
InvPi == Div(One, Fin((355 * SCALE) \div 113))

\* _call_price_scalar: the value of scipy.integrate.quad is used, its error
\* estimate and its warning of non-convergence are not looked at.
CallPriceScalar(h, q, t_, k_) ==
    Add(Mul(Half, Sub(h.s, Mul(Exp(Mul(Neg(h.r), t_)), k_))),
        Mul(Mul(InvPi, Exp(Mul(Neg(h.r), t_))), q[<<t_, k_>>].value))

\* A variant that pairs the elements of t and k in their own order, without
\* aligning them to the broadcast shape.
CallPriceFlatUnaligned(h, q, ta, ka, sh) ==
    [n \in 1..Size(sh) |->
        CallPriceScalar(h, q, ta.data[((n - 1) % Len(ta.data)) + 1],
                        ka.data[((n - 1) % Len(ka.data)) + 1])]

\* np.fromiter over the broadcast pairs, count = b.size.
CallPriceFlat(h, q, ta, ka, sh) ==
    [n \in 1..Size(sh) |->
        CallPriceScalar(h, q, BroadcastElement(ta, Unravel(n - 1, sh)),
                        BroadcastElement(ka, Unravel(n - 1, sh)))]

\* call_price
CallPrice ==
    /\ op = "call_price" /\ pc = "start"
    /\ IF ~Broadcastable(t.shape, k.shape)
       THEN /\ Raise("ValueError")
            /\ UNCHANGED result
       ELSE /\ result' =
                 IF Len(BroadcastShape(t.shape, k.shape)) # 0
                 THEN Array(BroadcastShape(t.shape, k.shape),
                            CallPriceFlat(self, quad, t, k,
                                          BroadcastShape(t.shape, k.shape)))
                 ELSE Scalar(CallPriceScalar(self, quad, t.data[1], k.data[1]))
            /\ outcome' = "returned"
            /\ pc' = "done"
            /\ UNCHANGED exc
    /\ UNCHANGED <<op, self, t, k, steps, paths, dt, cst, Z, U, V, X, S, i, j,
                   int_v, quad>>

\* Expiration times and strikes of the calls priced.
ExpiryVals == {Zero, One}
StrikeVals == {Zero, One}

\* Arguments of call_price: scalars and arrays.
Arrays(shapes, vals) ==
    UNION { { Array(sh, d) : d \in [1..Size(sh) -> vals] } : sh \in shapes }

ExpiryArgs == { Scalar(x) : x \in ExpiryVals } \cup Arrays({<<2>>, <<2, 1>>}, ExpiryVals)
StrikeArgs == { Scalar(x) : x \in StrikeVals } \cup Arrays({<<2>>, <<3>>}, StrikeVals)

\* What quad returns: the value of the integral, the estimate of its absolute
\* error, and whether the integration converged to the tolerance.
QuadResults ==
    { [value |-> One, abserr |-> Zero, converged |-> TRUE],
      [value |-> Two, abserr |-> One, converged |-> FALSE] }

\* Instances call_price is called on.
PriceModels == { h \in Models : h.v = Zero /\ h.sigma = Two }

----------------------------------------------------------------------------

InitSimulate ==
    /\ op \in {"simulate_euler", "simulate_qe", "simulate_exact"}
    /\ pc = "start"
    /\ self \in Models
    /\ t \in TimeVals
    /\ steps \in StepVals
    /\ paths \in PathVals
    /\ k = None /\ dt = None
    /\ cst = None /\ Z = <<>> /\ U = <<>> /\ V = None /\ X = None /\ S = None
    /\ i = 0 /\ j = 0 /\ int_v = None /\ quad = None
    /\ outcome = "none" /\ exc = "" /\ result = None

InitConstruct ==
    /\ op \in {"construct", "calibrate"}
    /\ pc = "start"
    /\ self = None
    /\ Idle

InitCallPrice ==
    /\ op = "call_price"
    /\ pc = "start"
    /\ self \in PriceModels
    /\ t \in ExpiryArgs
    /\ k \in StrikeArgs
    /\ quad \in [ExpiryVals \X StrikeVals -> QuadResults]
    /\ steps = 0 /\ paths = 0 /\ dt = None
    /\ cst = None /\ Z = <<>> /\ U = <<>> /\ V = None /\ X = None /\ S = None
    /\ i = 0 /\ j = 0 /\ int_v = None
    /\ outcome = "none" /\ exc = "" /\ result = None

Init == InitConstruct \/ InitCallPrice \/ InitSimulate

Next ==
    \/ Construct
    \/ Calibrate
    \/ CallPrice
    \/ EulerSetup
    \/ EulerStep
    \/ EulerReturn
    \/ QESetup
    \/ QEStep
    \/ QEReturn
    \/ ExactSetup
    \/ ExactSampleV
    \/ ExactInvert
    \/ ExactPrice
    \/ ExactReturn

Spec == Init /\ [][Next]_vars

----------------------------------------------------------------------------
(* Properties.                                                              *)

Simulating == op \in {"simulate_euler", "simulate_qe", "simulate_exact"}

\* A grid of shape (steps+1, paths) with every cell written.
FullGrid(g) ==
    /\ DOMAIN g = 0..steps
    /\ \A a \in 0..steps :
        /\ DOMAIN g[a] = 0..(paths - 1)
        /\ \A b \in 0..(paths - 1) : ~IsUninit(g[a][b])

\* C1: for every scheme, steps >= 1 and paths >= 1, a simulate call ends by
\* returning a price grid (and, with return_v, a variance grid) of shape
\* (steps+1, paths) with every row filled; it does not raise.
C1_SimulateReturnsFullGrids ==
    (Simulating /\ steps >= 1 /\ paths >= 1 /\ Gt(t, Zero) /\ pc = "done") =>
        /\ outcome = "returned"
        /\ \A n \in 1..Len(result) : FullGrid(result[n])

\* C2: no instance whose parameters violate a range constraint is ever
\* created: construction of one fails.
C2_OnlyValidModelsConstructed ==
    (op \in {"construct", "calibrate"} /\ pc = "done") =>
        (outcome = "returned" => ValidModel(self))

\* The call has a degenerate input: t = 0 or steps = 0 for a simulator, an
\* element t = 0 or k <= 0 for call_price.
Degenerate ==
    \/ Simulating /\ (t = Zero \/ steps = 0)
    \/ /\ op = "call_price"
       /\ \/ \E n \in 1..Len(t.data) : t.data[n] = Zero
          \/ \E n \in 1..Len(k.data) : Le(k.data[n], Zero)

\* C3: a call with a degenerate input ends in an error and never returns a
\* result.
C3_DegenerateInputsRejected ==
    (Degenerate /\ pc = "done") => outcome = "raised"

\* The (t, k) pairs a finished call of call_price has priced.
PricedPairs ==
    IF t.shape = <<>> /\ k.shape = <<>>
    THEN {<<t.data[1], k.data[1]>>}
    ELSE { <<BroadcastElement(t, Unravel(n - 1, result.shape)),
             BroadcastElement(k, Unravel(n - 1, result.shape))>> :
             n \in 1..Size(result.shape) }

\* C4: call_price never returns a price computed from an integral whose
\* quadrature did not converge.
C4_NoPriceFromUnconvergedIntegral ==
    (op = "call_price" /\ outcome = "returned") =>
        \A pr \in PricedPairs : quad[pr].converged

\* C5: under the QE and exact schemes, on a valid model, every stored
\* variance is >= 0, whatever the draws.
C5_StoredVarianceNonNegative ==
    (op \in {"simulate_qe", "simulate_exact"} /\ ValidModel(self) /\ V # None) =>
        \A a \in 0..steps : \A b \in 0..(paths - 1) :
            ~IsUninit(V[a][b]) => Ge(V[a][b], Zero)

RECURSIVE Indices(_)
Indices(sh) ==
    IF sh = <<>> THEN {<<>>}
    ELSE { <<a>> \o rest : a \in 0..(Head(sh) - 1), rest \in Indices(Tail(sh)) }

\* C7: call_price follows broadcasting: scalars give the scalar routine's
\* value as a scalar; otherwise the result has the broadcast shape and its
\* element at each position is the scalar routine applied to the pair of
\* elements of t and k at that position.
C7_CallPriceBroadcasts ==
    (op = "call_price" /\ outcome = "returned") =>
        IF t.shape = <<>> /\ k.shape = <<>>
        THEN result = Scalar(CallPriceScalar(self, quad, t.data[1], k.data[1]))
        ELSE /\ result.shape = BroadcastShape(t.shape, k.shape)
             /\ Len(result.data) = Size(result.shape)
             /\ \A idx \in Indices(result.shape) :
                    result.data[Ravel(idx, result.shape) + 1] =
                        CallPriceScalar(self, quad, BroadcastElement(t, idx),
                                        BroadcastElement(k, idx))

\* A call with t of shape (2, 1) and k of shape (3,), each with two different
\* elements, has returned.
C7_Witness ==
    /\ op = "call_price" /\ outcome = "returned"
    /\ t.shape = <<2, 1>> /\ k.shape = <<3>>
    /\ t.data[1] # t.data[2] /\ k.data[1] # k.data[3]
    /\ quad[<<t.data[1], k.data[1]>>] # quad[<<t.data[2], k.data[1]>>]

\* C8: in the exact scheme every (step, path) pair gets an integrated
\* variance in [0, x_max], x_max = 10*dt*(V[i]+V[i+1]), and the inversion
\* never ends in an error.
C8_IntegratedVarianceSampled ==
    (op = "simulate_exact" /\ pc \in {"invert", "done"}) =>
        /\ ~(outcome = "raised" /\ exc \in {"AttributeError", "ValueError"})
        /\ pc = "invert" =>
            \A b \in 0..(j - 1) :
                /\ Ge(int_v[b], Zero)
                /\ Le(int_v[b], MaxIntV(dt, V[i][b], V[i + 1][b]))

\* psi of the step that filled row a + 1 of path b.
PsiAt(a, b) == QEpsi(self, cst, V[a][b])

\* The value the quadratic-Gaussian formula gives row a + 1 of path b.
QuadraticAt(a, b, psi) ==
    LET m == QEm(self, cst, V[a][b])
        b_sq == QEb_sq(psi)
        root == Add(Sqrt(b_sq), Z[a + 1][b][1])
    IN  Mul(Div(m, Add(One, b_sq)), Mul(root, root))

\* The value the Bernoulli-exponential formula gives row a + 1 of path b.
ExponentialAt(a, b, psi) ==
    LET m == QEm(self, cst, V[a][b])
        p == QEp(psi)
        u == U[a + 1][b]
    IN  IF Lt(u, p) THEN Zero
        ELSE Div(Log(Div(Sub(One, p), Sub(One, u))), Div(Sub(One, p), m))

\* simulate_qe has taken a step: row i is the row it filled last.
QEStepped == op = "simulate_qe" /\ V # None /\ i >= 1

\* C9 as stated: psi <= 1.5, 1.5 included, gives the quadratic-Gaussian
\* formula, and only psi > 1.5 the Bernoulli-exponential formula.
C9_BranchAtThresholdInclusive ==
    QEStepped =>
        \A b \in 0..(paths - 1) :
            LET psi == PsiAt(i - 1, b)
            IN  /\ Le(psi, PsiCrit) => V[i][b] = QuadraticAt(i - 1, b, psi)
                /\ Gt(psi, PsiCrit) => V[i][b] = ExponentialAt(i - 1, b, psi)

\* C9 as amended: psi < 1.5 gives the quadratic-Gaussian formula, and
\* psi >= 1.5, 1.5 included, the Bernoulli-exponential formula.
C9_BranchAtThresholdExclusive ==
    QEStepped =>
        \A b \in 0..(paths - 1) :
            LET psi == PsiAt(i - 1, b)
            IN  /\ Lt(psi, PsiCrit) => V[i][b] = QuadraticAt(i - 1, b, psi)
                /\ Ge(psi, PsiCrit) => V[i][b] = ExponentialAt(i - 1, b, psi)

\* A step has been taken with psi exactly 1.5 on a path where the two
\* formulas give different values.
C9_Witness ==
    /\ QEStepped
    /\ \E b \in 0..(paths - 1) :
        /\ PsiAt(i - 1, b) = PsiCrit
        /\ QuadraticAt(i - 1, b, PsiCrit) # ExponentialAt(i - 1, b, PsiCrit)
        /\ V[i][b] = ExponentialAt(i - 1, b, PsiCrit)

\* C10: in the Euler scheme the truncation is not stored back: after step a
\* the stored V[a] is the value V[a+1] and X[a+1] were computed from, with
\* Vplus = max(V[a], 0) in the drift and the diffusion; a path whose stored
\* variance is negative at step a gets no diffusion in V and in X.
C10_EulerFullTruncation ==
    (op = "simulate_euler" /\ V # None) =>
        \A a \in 0..(i - 1) : \A b \in 0..(paths - 1) :
            LET Vplus == IF Lt(V[a][b], Zero) THEN Zero ELSE V[a][b]
                z0 == Z[a + 1][b][1]
                z1 == Z[a + 1][b][2]
            IN  /\ V[a + 1][b] =
                       Add(Add(V[a][b], Mul(Mul(self.kappa, Sub(self.theta, Vplus)), dt)),
                           Mul(Mul(Mul(self.sigma, Sqrt(Vplus)), z0), Sqrt(dt)))
                /\ Lt(V[a][b], Zero) =>
                    /\ V[a + 1][b] = Add(V[a][b], Mul(Mul(self.kappa, self.theta), dt))
                    /\ X[a + 1][b] = Add(X[a][b], Mul(self.r, dt))

\* A step has been taken from a stored negative variance.
C10_Witness ==
    /\ op = "simulate_euler" /\ V # None
    /\ \E a \in 0..(i - 1) : \E b \in 0..(paths - 1) : Lt(V[a][b], Zero)

====
